---- MODULE Spec2Model ----
(***************************************************************************)
(* Model of rust-todo (src/src/main.rs): an interactive todo list kept in  *)
(* memory during a session and persisted to the text file todos_db.txt.    *)
(*                                                                         *)
(* Text (file content, input lines, todo text) is a sequence of one        *)
(* character strings, so that formatting, splitting and parsing are        *)
(* computed the way the code computes them.                                *)
(***************************************************************************)
EXTENDS Integers, Sequences, FiniteSets, TLC

(***************************************************************************)
(* Bounds of the exploration.                                              *)
(***************************************************************************)
\* total number of todos created (choice 3) along one run, over all sessions
MaxCreates == 3

(***************************************************************************)
(* Program constants.                                                      *)
(***************************************************************************)
\* A u32 (Todo.id, Metadata.seq_id) is held as two 16-bit limbs <<hi, lo>> of
\* value hi * 65536 + lo, so that the whole range 0 .. 2^32 - 1 is represented.
LimbBase == 65536

U32(n) == <<n \div LimbBase, n % LimbBase>>
U32Max == <<LimbBase - 1, LimbBase - 1>>
U32Lt(a, b) == a[1] < b[1] \/ (a[1] = b[1] /\ a[2] < b[2])
U32Leq(a, b) == a = b \/ U32Lt(a, b)

(***************************************************************************)
(* Text helpers (str::trim, str::split, str::starts_with, BufRead::lines). *)
(***************************************************************************)
NL == "\n"
Whitespace == {" ", NL, "\t", "\r"}
Digits == <<"0", "1", "2", "3", "4", "5", "6", "7", "8", "9">>
DigitSet == {Digits[i] : i \in 1..10}
DigitVal(c) == (CHOOSE i \in 1..10 : Digits[i] = c) - 1

RECURSIVE TrimStart(_)
TrimStart(s) ==
    IF s # <<>> /\ Head(s) \in Whitespace THEN TrimStart(Tail(s)) ELSE s

RECURSIVE TrimEnd(_)
TrimEnd(s) ==
    IF s # <<>> /\ s[Len(s)] \in Whitespace
    THEN TrimEnd(SubSeq(s, 1, Len(s) - 1))
    ELSE s

\* str::trim
Trim(s) == TrimEnd(TrimStart(s))

\* position of the first occurrence of character c in s, 0 when absent
IndexOf(s, c) ==
    IF \E i \in 1..Len(s) : s[i] = c
    THEN CHOOSE i \in 1..Len(s) : s[i] = c /\ \A j \in 1..(i - 1) : s[j] # c
    ELSE 0

\* str::split(c).collect()
RECURSIVE Split(_, _)
Split(s, c) ==
    LET i == IndexOf(s, c) IN
    IF i = 0
    THEN <<s>>
    ELSE <<SubSeq(s, 1, i - 1)>> \o Split(SubSeq(s, i + 1, Len(s)), c)

\* slice::join(sep) on a sequence of texts
RECURSIVE Join(_, _)
Join(parts, sep) ==
    IF parts = <<>> THEN <<>>
    ELSE IF Len(parts) = 1 THEN parts[1]
    ELSE parts[1] \o <<sep>> \o Join(Tail(parts), sep)

\* str::starts_with
StartsWith(s, p) == Len(s) >= Len(p) /\ SubSeq(s, 1, Len(p)) = p

\* one line as BufRead::lines yields it: a trailing carriage return is dropped
StripCR(l) ==
    IF l # <<>> /\ l[Len(l)] = "\r" THEN SubSeq(l, 1, Len(l) - 1) ELSE l

\* BufRead::lines: the content cut at newlines, no empty line after a final newline
Lines(bytes) ==
    IF bytes = <<>> THEN <<>>
    ELSE LET parts == Split(bytes, NL)
             kept == IF parts[Len(parts)] = <<>>
                     THEN SubSeq(parts, 1, Len(parts) - 1)
                     ELSE parts
         IN [i \in 1..Len(kept) |-> StripCR(kept[i])]

\* BufRead::read_line on a fresh reader: the first line with its newline
ReadLine(bytes) ==
    LET i == IndexOf(bytes, NL) IN
    IF i = 0 THEN bytes ELSE SubSeq(bytes, 1, i)

(***************************************************************************)
(* Conversions of the fields.                                              *)
(***************************************************************************)
\* decimal digits of a clock reading
RECURSIVE FmtNat(_)
FmtNat(n) ==
    IF n < 10 THEN <<Digits[n + 1]>>
    ELSE FmtNat(n \div 10) \o <<Digits[(n % 10) + 1]>>

\* quotient and remainder of a u32 divided by ten
DivMod10(a) ==
    LET t == (a[1] % 10) * LimbBase + a[2] IN
    [q |-> <<a[1] \div 10, t \div 10>>, r |-> t % 10]

\* u32 Display: decimal digits, no sign, no leading zero
RECURSIVE FmtU32(_)
FmtU32(a) ==
    IF a[1] = 0 /\ a[2] < 10 THEN <<Digits[a[2] + 1]>>
    ELSE FmtU32(DivMod10(a).q) \o <<Digits[DivMod10(a).r + 1]>>

RECURSIVE DigitsValue(_)
DigitsValue(s) ==
    IF s = <<>> THEN 0
    ELSE 10 * DigitsValue(SubSeq(s, 1, Len(s) - 1)) + DigitVal(s[Len(s)])

\* the u32 read from a digit string, digit by digit with checked arithmetic:
\* ok is FALSE once the value passes 2^32 - 1
RECURSIVE DigitsU32(_)
DigitsU32(s) ==
    IF s = <<>> THEN [ok |-> TRUE, val |-> U32(0)]
    ELSE LET p == DigitsU32(SubSeq(s, 1, Len(s) - 1))
             lo == p.val[2] * 10 + DigitVal(s[Len(s)])
             hi == p.val[1] * 10 + lo \div LimbBase
         IN IF p.ok /\ hi < LimbBase
            THEN [ok |-> TRUE, val |-> <<hi, lo % LimbBase>>]
            ELSE [ok |-> FALSE, val |-> U32(0)]

\* parse().unwrap_or(0): what does not parse counts as 0
ParseU32OrZero(s) ==
    LET body == IF s # <<>> /\ Head(s) = "+" THEN Tail(s) ELSE s IN
    IF body # <<>> /\ (\A i \in 1..Len(body) : body[i] \in DigitSet)
    THEN DigitsU32(body)
    ELSE [ok |-> TRUE, val |-> U32(0)]

\* str::parse::<u32>: an optional plus sign, then one or more digits, value
\* within u32; anything else is an error
ParseU32(s) ==
    LET body == IF s # <<>> /\ Head(s) = "+" THEN Tail(s) ELSE s IN
    IF body # <<>> /\ (\A i \in 1..Len(body) : body[i] \in DigitSet)
    THEN DigitsU32(body)
    ELSE [ok |-> FALSE, val |-> U32(0)]

\* bool Display
FmtBool(b) == IF b THEN <<"t", "r", "u", "e">> ELSE <<"f", "a", "l", "s", "e">>

\* str::parse::<bool>: exactly "true" or "false"
ParseBool(s) ==
    IF s = <<"t", "r", "u", "e">> THEN [ok |-> TRUE, val |-> TRUE]
    ELSE IF s = <<"f", "a", "l", "s", "e">> THEN [ok |-> TRUE, val |-> FALSE]
    ELSE [ok |-> FALSE, val |-> FALSE]

\* DateTime<Local> Debug ({:?}): a clock reading t is rendered as the
\* character T followed by its digits (no comma, no newline in it)
FmtTime(t) == <<"T">> \o FmtNat(t)

\* str::parse::<DateTime<Local>>: the rendering above read back
ParseTime(s) ==
    IF s # <<>> /\ Head(s) = "T" /\ Tail(s) # <<>>
          /\ (\A i \in 2..Len(s) : s[i] \in DigitSet)
    THEN [ok |-> TRUE, val |-> DigitsValue(Tail(s))]
    ELSE [ok |-> FALSE, val |-> 0]

(***************************************************************************)
(* Todo and Metadata: Display and FromStr.                                 *)
(***************************************************************************)
NoTodo == [id |-> U32(0), is_completed |-> FALSE, text |-> <<>>, created_at |-> 0]

SeqIdPrefix == <<"s", "e", "q", "_", "i", "d", ":">>

\* a Display for Todo that writes the commas of the text as semicolons
TodoToStringNoComma(t) ==
    FmtU32(t.id) \o <<",">> \o FmtTime(t.created_at) \o <<",">>
        \o [i \in 1..Len(t.text) |-> IF t.text[i] = "," THEN ";" ELSE t.text[i]]
        \o <<",">> \o FmtBool(t.is_completed)

\* impl fmt::Display for Todo: "{},{:?},{},{}" of id, created_at, text, is_completed
TodoToString(t) ==
    FmtU32(t.id) \o <<",">> \o FmtTime(t.created_at) \o <<",">> \o t.text
        \o <<",">> \o FmtBool(t.is_completed)

\* impl fmt::Display for Metadata: "seq_id:{}"
MetadataToString(m) == SeqIdPrefix \o FmtU32(m.seq_id)

\* impl FromStr for Todo. kind is "ok", "err" (Err(ParseTodoError): not 4
\* fields) or "panic" (an unwrap of a field's parse failed inside from_str)
TodoFromStr(s) ==
    LET elements == Split(s, ",") IN
    IF Len(elements) # 4 THEN [kind |-> "err", todo |-> NoTodo]
    ELSE LET id == ParseU32(elements[1])
             created_at == ParseTime(elements[2])
             is_completed == ParseBool(elements[4])
         IN IF id.ok /\ created_at.ok /\ is_completed.ok
            THEN [kind |-> "ok",
                  todo |-> [id |-> id.val, is_completed |-> is_completed.val,
                            text |-> elements[3], created_at |-> created_at.val]]
            ELSE [kind |-> "panic", todo |-> NoTodo]

\* impl FromStr for Metadata
MetadataFromStr(s) ==
    IF ~StartsWith(s, SeqIdPrefix) THEN [kind |-> "err", seq_id |-> U32(0)]
    ELSE LET elements == Split(s, ":") IN
         IF Len(elements) # 2 THEN [kind |-> "err", seq_id |-> U32(0)]
         ELSE LET seq_id == ParseU32(elements[2]) IN
              IF seq_id.ok THEN [kind |-> "ok", seq_id |-> seq_id.val]
              ELSE [kind |-> "panic", seq_id |-> U32(0)]

(***************************************************************************)
(* Persistence: load_metadata, load_todos, save_todos.                     *)
(***************************************************************************)
\* fn load_metadata: ok is FALSE when File::open or the parse panics
LoadMetadata(f) ==
    IF ~f.exists THEN [ok |-> FALSE, seq_id |-> U32(0)]
    ELSE LET m == MetadataFromStr(Trim(ReadLine(f.bytes))) IN
         [ok |-> m.kind = "ok", seq_id |-> m.seq_id]

\* load_todos keeping the lines that parse and dropping the others
LoadTodosSkipBad(f) ==
    IF ~f.exists THEN [ok |-> FALSE, todos |-> <<>>]
    ELSE LET lines == Lines(f.bytes)
             rest == IF lines = <<>> THEN <<>> ELSE Tail(lines)
             parsed == [i \in 1..Len(rest) |-> TodoFromStr(rest[i])]
             IsOk(p) == p.kind = "ok"
             good == SelectSeq(parsed, IsOk)
         IN [ok |-> TRUE, todos |-> [i \in 1..Len(good) |-> good[i].todo]]

\* fn load_todos: the first line is skipped, every other line must parse
LoadTodos(f) ==
    IF ~f.exists THEN [ok |-> FALSE, todos |-> <<>>]
    ELSE LET lines == Lines(f.bytes)
             rest == IF lines = <<>> THEN <<>> ELSE Tail(lines)
             parsed == [i \in 1..Len(rest) |-> TodoFromStr(rest[i])]
         IN IF \A i \in 1..Len(rest) : parsed[i].kind = "ok"
            THEN [ok |-> TRUE, todos |-> [i \in 1..Len(rest) |-> parsed[i].todo]]
            ELSE [ok |-> FALSE, todos |-> <<>>]

\* fn save_todos: the bytes written to the freshly created file
SaveBytes(m, ts) ==
    MetadataToString(m) \o <<NL>>
        \o Join([i \in 1..Len(ts) |-> TodoToString(ts[i])], NL)

(***************************************************************************)
(* Pure parts of the menu handlers.                                        *)
(***************************************************************************)
\* Position with a default index in place of None
PositionOrFirst(ts, id) ==
    IF \E i \in 1..Len(ts) : ts[i].id = id
    THEN CHOOSE i \in 1..Len(ts) :
             ts[i].id = id /\ \A j \in 1..(i - 1) : ts[j].id # id
    ELSE IF ts # <<>> THEN 1 ELSE 0

\* todos.iter().position(|t| t.id == id): index of the first match, 0 for None
Position(ts, id) ==
    IF \E i \in 1..Len(ts) : ts[i].id = id
    THEN CHOOSE i \in 1..Len(ts) :
             ts[i].id = id /\ \A j \in 1..(i - 1) : ts[j].id # id
    ELSE 0

\* MarkCompleted setting the flag on every todo
MarkAllCompleted(ts, i) ==
    [k \in 1..Len(ts) |-> [ts[k] EXCEPT !.is_completed = TRUE]]

\* MarkCompleted that also resets the timestamp of the todo
MarkCompletedAndRestamp(ts, i) ==
    [ts EXCEPT ![i].is_completed = TRUE, ![i].created_at = 0]

\* MarkCompleted flipping the flag
ToggleCompleted(ts, i) == [ts EXCEPT ![i].is_completed = ~ts[i].is_completed]

\* Some(t) => t.is_completed = true, on the todo found at index i
MarkCompleted(ts, i) == [ts EXCEPT ![i].is_completed = TRUE]

\* todos.drain(..=index) in place of remove: the todos before it go as well
RemoveUpTo(ts, i) == SubSeq(ts, i + 1, Len(ts))

\* Vec::swap_remove in place of remove: the last todo takes the freed place
SwapRemove(ts, i) ==
    IF i = Len(ts) THEN SubSeq(ts, 1, Len(ts) - 1)
    ELSE [k \in 1..(Len(ts) - 1) |-> IF k = i THEN ts[Len(ts)] ELSE ts[k]]

\* todos.remove(index)
Remove(ts, i) == SubSeq(ts, 1, i - 1) \o SubSeq(ts, i + 1, Len(ts))

\* print_todos with the test of is_completed inverted
RECURSIVE PrintTodosSkipOpen(_, _)
PrintTodosSkipOpen(ts, only_open_todos) ==
    IF ts = <<>> THEN <<>>
    ELSE IF only_open_todos /\ Head(ts).is_completed = FALSE
         THEN PrintTodosSkipOpen(Tail(ts), only_open_todos)
         ELSE <<Head(ts)>> \o PrintTodosSkipOpen(Tail(ts), only_open_todos)

\* fn print_todos: the todos printed as rows, in the order of the loop
RECURSIVE PrintTodos(_, _)
PrintTodos(ts, only_open_todos) ==
    IF ts = <<>> THEN <<>>
    ELSE IF only_open_todos /\ Head(ts).is_completed = TRUE
         THEN PrintTodos(Tail(ts), only_open_todos)
         ELSE <<Head(ts)>> \o PrintTodos(Tail(ts), only_open_todos)

\* metadata.seq_id += 1 where the addition does not panic: the u32 sum,
\* which a build without overflow checks wraps around
IncSeqId(a) ==
    IF a[2] < LimbBase - 1 THEN <<a[1], a[2] + 1>>
    ELSE IF a[1] < LimbBase - 1 THEN <<a[1] + 1, 0>>
    ELSE U32(0)

\* the Todo built by new_todo from the line read, the new seq_id and the clock
MakeTodo(seq_id, line, now) ==
    [id |-> seq_id, is_completed |-> FALSE, text |-> Trim(line), created_at |-> now]

NotFoundMsg == "Could not find Todo by that id"

(***************************************************************************)
(* Inputs.                                                                 *)
(***************************************************************************)
\* a text with its terminating newline, as read_line returns it
Line(s) == s \o <<NL>>

\* lines typed at the menu prompt; <<>> is end of input (read_line reads nothing)
ChoiceLines ==
    {Line(<<"1">>), Line(<<"2">>), Line(<<"3">>), Line(<<"4">>), Line(<<"5">>),
     Line(<<"6">>), Line(<<" ", "1", " ">>), Line(<<"q">>), Line(<<>>), <<>>}

\* texts of the spec's example scenario
BuyMilk == <<"b", "u", "y", " ", "m", "i", "l", "k">>
WalkDog == <<"w", "a", "l", "k", " ", "d", "o", "g">>

\* lines typed as the text of a new todo
TextLines == {Line(BuyMilk), Line(WalkDog), Line(<<"a", ",", "b">>)}

\* lines typed as the id of the todo to complete or delete
IdLines == {Line(<<"1">>), Line(<<"2">>), Line(<<"x">>)}

\* stores the program can have built, and the file save_todos wrote for each
InitStores ==
    { [seq_id |-> U32(0), todos |-> <<>>],
      [seq_id |-> U32(2),
       todos |-> << [id |-> U32(2), is_completed |-> TRUE, text |-> <<>>, created_at |-> 7] >>],
      [seq_id |-> <<LimbBase - 1, LimbBase - 2>>,
       todos |-> << [id |-> U32(1), is_completed |-> FALSE, text |-> <<"a">>, created_at |-> 7] >>] }

\* a well-formed todo line, as save_todos writes it
GoodLine == <<"1", ",", "T", "0", ",", "a", ",", "f", "a", "l", "s", "e">>

\* files that load rejects: a metadata line without the prefix, then, under a
\* well-formed metadata line, a todo line of 3 fields, one with a non-numeric
\* id, one with an unparsable timestamp, one with a flag that is no bool, and
\* a well-formed todo line followed by a line of 3 fields
BadFiles ==
    { <<"s", "e", "q", ":", "0", NL>>,
      MetadataToString([seq_id |-> U32(1)]) \o <<NL, "1", ",", "T", "0", ",", "a">>,
      MetadataToString([seq_id |-> U32(1)])
          \o <<NL, "x", ",", "T", "0", ",", "a", ",", "t", "r", "u", "e">>,
      MetadataToString([seq_id |-> U32(1)])
          \o <<NL, "1", ",", "0", ",", "a", ",", "t", "r", "u", "e">>,
      MetadataToString([seq_id |-> U32(1)])
          \o <<NL, "1", ",", "T", "0", ",", "a", ",", "y", "e", "s">>,
      MetadataToString([seq_id |-> U32(2)])
          \o <<NL>> \o GoodLine \o <<NL, "2", ",", "T", "0", ",", "a">> }

InitFiles ==
    {[exists |-> FALSE, bytes |-> <<>>]}
        \cup {[exists |-> TRUE, bytes |-> SaveBytes([seq_id |-> st.seq_id], st.todos)] :
                 st \in InitStores}
        \cup {[exists |-> TRUE, bytes |-> b] : b \in BadFiles}

(***************************************************************************)
(* State.                                                                  *)
(***************************************************************************)
VARIABLES
    pc,        \* "off" not started, "menu" in the loop, "exited" after Ok(()), "panicked"
    file,      \* todos_db.txt: [exists, bytes]
    metadata,  \* main's metadata: [seq_id]
    todos,     \* main's todos: sequence of Todo
    stdin,     \* the lines the last handler read, trimmed: [choice, arg]; arg is
               \* the id line of choices 4 and 5
    stdout,    \* what the last handler printed: [msg, rows]
    alloc,     \* history: the ids new_todo has returned, over all sessions
    session    \* history of the running session: [first, after_save, boot, saves],
               \* the length of alloc and the file when it started, whether the
               \* session before it ended in save_todos, and its calls of save_todos

vars == <<pc, file, metadata, todos, stdin, stdout, alloc, session>>

NoInput == [choice |-> <<>>, arg |-> <<>>]
Silent == [msg |-> "", rows |-> <<>>]

Init ==
    /\ pc = "off"
    /\ file \in InitFiles
    /\ metadata = [seq_id |-> U32(0)]
    /\ todos = <<>>
    /\ stdin = NoInput
    /\ stdout = Silent
    /\ alloc = <<>>
    /\ session = [first |-> 0, after_save |-> FALSE, boot |-> file, saves |-> 0]

\* Local::now(): the clock reading; the clock ticks with every todo created
LocalNow == Len(alloc)

(***************************************************************************)
(* Actions.                                                                *)
(***************************************************************************)
\* main, lines 86-92: the program is started; load_metadata and load_todos
\* either both succeed and the loop is entered, or the process panics
Start ==
    /\ pc \in {"off", "exited", "panicked"}
    /\ LET m == LoadMetadata(file)
           l == LoadTodos(file)
       IN IF m.ok /\ l.ok
          THEN /\ pc' = "menu"
               /\ metadata' = [seq_id |-> m.seq_id]
               /\ todos' = l.todos
          ELSE /\ pc' = "panicked"
               /\ metadata' = [seq_id |-> U32(0)]
               /\ todos' = <<>>
    /\ session' = [first |-> Len(alloc), after_save |-> (pc = "exited"),
                   boot |-> file, saves |-> 0]
    /\ stdin' = NoInput
    /\ stdout' = Silent
    /\ UNCHANGED <<file, alloc>>

\* choice "1": show_all_todos
ShowAllTodos ==
    /\ pc = "menu"
    /\ \E line \in ChoiceLines :
          /\ Trim(line) = <<"1">>
          /\ stdin' = [choice |-> Trim(line), arg |-> <<>>]
    /\ stdout' = [msg |-> "", rows |-> PrintTodos(todos, FALSE)]
    /\ UNCHANGED <<pc, file, metadata, todos, alloc, session>>

\* choice "2": show_all_open_todos
ShowAllOpenTodos ==
    /\ pc = "menu"
    /\ \E line \in ChoiceLines :
          /\ Trim(line) = <<"2">>
          /\ stdin' = [choice |-> Trim(line), arg |-> <<>>]
    /\ stdout' = [msg |-> "", rows |-> PrintTodos(todos, TRUE)]
    /\ UNCHANGED <<pc, file, metadata, todos, alloc, session>>

\* choice "3": new_todo, then todos.push
NewTodo ==
    /\ pc = "menu"
    /\ Len(alloc) < MaxCreates
    /\ \E line \in ChoiceLines, input_todo \in TextLines :
          /\ Trim(line) = <<"3">>
          /\ stdin' = [choice |-> Trim(line), arg |-> <<>>]
          /\ metadata' = [metadata EXCEPT !.seq_id = IncSeqId(metadata.seq_id)]
          /\ todos' = Append(todos, MakeTodo(metadata'.seq_id, input_todo, LocalNow))
          /\ alloc' = Append(alloc, metadata'.seq_id)
    /\ stdout' = Silent
    /\ UNCHANGED <<pc, file, session>>

\* choice "3" in a build with overflow checks, at seq_id = u32::MAX:
\* metadata.seq_id += 1 panics
NewTodoOverflow ==
    /\ pc = "menu"
    /\ Len(alloc) < MaxCreates
    /\ metadata.seq_id = U32Max
    /\ \E line \in ChoiceLines :
          /\ Trim(line) = <<"3">>
          /\ stdin' = [choice |-> Trim(line), arg |-> <<>>]
    /\ pc' = "panicked"
    /\ stdout' = Silent
    /\ UNCHANGED <<file, metadata, todos, alloc, session>>

\* choice "4": set_todo_completed
SetTodoCompleted ==
    /\ pc = "menu"
    /\ \E line \in ChoiceLines, input_todo_id \in IdLines :
          /\ Trim(line) = <<"4">>
          /\ stdin' = [choice |-> Trim(line), arg |-> Trim(input_todo_id)]
          /\ LET id == ParseU32(Trim(input_todo_id))
                 i == Position(todos, id.val)
             IN IF ~id.ok
                THEN /\ pc' = "panicked"
                     /\ stdout' = Silent
                     /\ todos' = todos
                ELSE IF i # 0
                THEN /\ pc' = pc
                     /\ stdout' = Silent
                     /\ todos' = MarkCompleted(todos, i)
                ELSE /\ pc' = pc
                     /\ stdout' = [msg |-> NotFoundMsg, rows |-> <<>>]
                     /\ todos' = todos
    /\ UNCHANGED <<file, metadata, alloc, session>>

\* choice "5": delete_todo
DeleteTodo ==
    /\ pc = "menu"
    /\ \E line \in ChoiceLines, input_todo_id \in IdLines :
          /\ Trim(line) = <<"5">>
          /\ stdin' = [choice |-> Trim(line), arg |-> Trim(input_todo_id)]
          /\ LET id == ParseU32(Trim(input_todo_id))
                 todo_index == Position(todos, id.val)
             IN IF ~id.ok
                THEN /\ pc' = "panicked"
                     /\ stdout' = Silent
                     /\ todos' = todos
                ELSE IF todo_index # 0
                THEN /\ pc' = pc
                     /\ stdout' = Silent
                     /\ todos' = Remove(todos, todo_index)
                ELSE /\ pc' = pc
                     /\ stdout' = [msg |-> NotFoundMsg, rows |-> <<>>]
                     /\ todos' = todos
    /\ UNCHANGED <<file, metadata, alloc, session>>

\* the match without its arm "5"
RecognizedUpTo4 == {<<"1">>, <<"2">>, <<"3">>, <<"4">>}

\* the choices that branch to a handler
Recognized == {<<"1">>, <<"2">>, <<"3">>, <<"4">>, <<"5">>}

\* any other choice: save_todos, break, Ok(())
SaveAndClose ==
    /\ pc = "menu"
    /\ \E line \in ChoiceLines :
          /\ Trim(line) \notin Recognized
          /\ stdin' = [choice |-> Trim(line), arg |-> <<>>]
    /\ file' = [exists |-> TRUE, bytes |-> SaveBytes(metadata, todos)]
    /\ session' = [session EXCEPT !.saves = @ + 1]
    /\ pc' = "exited"
    /\ stdout' = Silent
    /\ UNCHANGED <<metadata, todos, alloc>>

Next ==
    \/ Start
    \/ ShowAllTodos
    \/ ShowAllOpenTodos
    \/ NewTodo
    \/ NewTodoOverflow
    \/ SetTodoCompleted
    \/ DeleteTodo
    \/ SaveAndClose

Spec == Init /\ [][Next]_vars

(***************************************************************************)
(* Vocabulary of the properties.                                           *)
(***************************************************************************)
\* b is exactly one greater than a, as numbers
IsSucc(a, b) ==
    \/ a[2] < LimbBase - 1 /\ b = <<a[1], a[2] + 1>>
    \/ a[2] = LimbBase - 1 /\ a[1] < LimbBase - 1 /\ b = <<a[1] + 1, 0>>

HasId(ts, id) == \E i \in 1..Len(ts) : ts[i].id = id

\* the ids new_todo returned in the running session, and in the sessions before it
SessionIds == SubSeq(alloc, session.first + 1, Len(alloc))
EarlierIds == SubSeq(alloc, 1, session.first)

\* the counter the running session loaded
LoadedSeqId == LoadMetadata(session.boot).seq_id

\* the id typed at the last prompt of choice 4 or 5
TypedId == ParseU32(stdin.arg)

(***************************************************************************)
(* C1. Round trip: when a session ends with save_todos, loading the file   *)
(* it wrote succeeds and yields the counter and the todos the session      *)
(* held, in the same order with the same fields.                           *)
(***************************************************************************)
C1_RoundTrip ==
    pc = "exited" =>
        /\ LoadMetadata(file).ok
        /\ LoadTodos(file).ok
        /\ LoadMetadata(file).seq_id = metadata.seq_id
        /\ LoadTodos(file).todos = todos

(***************************************************************************)
(* C2. In every state of the menu loop every todo's id is at most the      *)
(* counter and no two todos share an id.                                   *)
(***************************************************************************)
C2_IdsWithinCounterAndDistinct ==
    pc = "menu" =>
        /\ \A i \in 1..Len(todos) : U32Leq(todos[i].id, metadata.seq_id)
        /\ \A i, j \in 1..Len(todos) : i # j => todos[i].id # todos[j].id

(***************************************************************************)
(* C3. The ids new_todo returns within one session: the first is the       *)
(* loaded counter plus 1, each later one is the one before it plus 1.      *)
(***************************************************************************)
C3_CreateIdsIncreaseByOne ==
    pc \in {"menu", "exited", "panicked"} =>
        /\ SessionIds # <<>> => IsSucc(LoadedSeqId, SessionIds[1])
        /\ \A k \in 1..(Len(SessionIds) - 1) :
              /\ U32Lt(SessionIds[k], SessionIds[k + 1])
              /\ IsSucc(SessionIds[k], SessionIds[k + 1])

(***************************************************************************)
(* C4. In a session started after the session before it ended in           *)
(* save_todos, the first id new_todo returns is greater than every id      *)
(* new_todo returned in any earlier session.                               *)
(***************************************************************************)
C4_NoIdReusedAfterReload ==
    (session.after_save /\ SessionIds # <<>>) =>
        \A k \in 1..Len(EarlierIds) : U32Lt(EarlierIds[k], SessionIds[1])

(***************************************************************************)
(* C5. A step of delete_todo that finds the id leaves no todo with that id *)
(* and shortens the collection by one; a delete of the same id right after *)
(* it reports not found and changes nothing.                               *)
(***************************************************************************)
DeleteFound ==
    /\ pc = "menu" /\ pc' = "menu"
    /\ stdin'.choice = <<"5">>
    /\ stdout'.msg = ""

C5_Deletion ==
    [][ /\ DeleteFound =>
            /\ ~HasId(todos', ParseU32(stdin'.arg).val)
            /\ Len(todos') = Len(todos) - 1
        /\ (/\ stdin.choice = <<"5">> /\ stdout.msg = ""
            /\ pc = "menu" /\ pc' = "menu"
            /\ stdin'.choice = <<"5">> /\ stdin'.arg = stdin.arg) =>
               /\ stdout'.msg = NotFoundMsg
               /\ todos' = todos /\ metadata' = metadata /\ file' = file
      ]_vars

(***************************************************************************)
(* C6. A step of set_todo_completed whose id is in the collection sets     *)
(* is_completed on the first todo with that id and changes nothing else:   *)
(* length, order, the other todos, that todo's id, text and created_at,    *)
(* the counter and the file stay as they were.                             *)
(***************************************************************************)
CompleteStep == pc = "menu" /\ stdin'.choice = <<"4">>

C6_CompleteFrame ==
    [][ (/\ CompleteStep
         /\ ParseU32(stdin'.arg).ok
         /\ HasId(todos, ParseU32(stdin'.arg).val)) =>
            /\ \E i \in 1..Len(todos) :
                  /\ todos[i].id = ParseU32(stdin'.arg).val
                  /\ \A j \in 1..(i - 1) : todos[j].id # todos[i].id
                  /\ Len(todos') = Len(todos)
                  /\ todos'[i].is_completed = TRUE
                  /\ todos'[i].id = todos[i].id
                  /\ todos'[i].text = todos[i].text
                  /\ todos'[i].created_at = todos[i].created_at
                  /\ \A j \in 1..Len(todos) : j # i => todos'[j] = todos[j]
            /\ metadata' = metadata
            /\ file' = file
            /\ pc' = "menu"
      ]_vars

C6_Witness ==
    /\ pc = "menu" /\ stdin.choice = <<"4">> /\ stdout.msg = ""
    /\ TypedId.ok
    /\ \E i, j \in 1..Len(todos) :
          /\ todos[i].id = TypedId.val /\ todos[i].is_completed
          /\ ~todos[j].is_completed

(***************************************************************************)
(* C7. set_todo_completed on an id in the collection succeeds and leaves   *)
(* the first todo with that id completed; called again with the same id    *)
(* right after, it succeeds again and changes nothing; it reports not      *)
(* found only when no todo has the id.                                     *)
(***************************************************************************)
C7_CompleteIdempotent ==
    [][ /\ (/\ CompleteStep
            /\ ParseU32(stdin'.arg).ok
            /\ HasId(todos, ParseU32(stdin'.arg).val)) =>
               /\ stdout'.msg = ""
               /\ \E i \in 1..Len(todos') :
                     /\ todos'[i].id = ParseU32(stdin'.arg).val
                     /\ \A j \in 1..(i - 1) : todos'[j].id # todos'[i].id
                     /\ todos'[i].is_completed
        /\ (/\ stdin.choice = <<"4">> /\ stdout.msg = "" /\ pc = "menu"
            /\ CompleteStep /\ stdin'.arg = stdin.arg) =>
               /\ stdout'.msg = ""
               /\ todos' = todos /\ metadata' = metadata /\ file' = file
               /\ pc' = "menu"
        /\ (CompleteStep /\ stdout'.msg = NotFoundMsg) =>
               ~HasId(todos, ParseU32(stdin'.arg).val)
      ]_vars

\* complete has succeeded on a todo that the session loaded as completed
C7_Witness ==
    /\ pc = "menu" /\ stdin.choice = <<"4">> /\ stdout.msg = ""
    /\ TypedId.ok
    /\ \E i \in 1..Len(todos) :
          todos[i].id = TypedId.val /\ todos[i].is_completed
    /\ \E k \in 1..Len(LoadTodos(session.boot).todos) :
          /\ LoadTodos(session.boot).todos[k].id = TypedId.val
          /\ LoadTodos(session.boot).todos[k].is_completed

(***************************************************************************)
(* C8. Choice 1 prints every todo in the order of the collection, choice 2 *)
(* prints exactly the todos whose is_completed is false, in the same       *)
(* relative order; neither changes the collection, the counter or the file.*)
(***************************************************************************)
IsOpen(t) == t.is_completed = FALSE

C8_Filtering ==
    [][ /\ (pc = "menu" /\ stdin'.choice = <<"1">>) =>
               /\ stdout'.rows = todos
               /\ todos' = todos /\ metadata' = metadata /\ file' = file
               /\ pc' = "menu"
        /\ (pc = "menu" /\ stdin'.choice = <<"2">>) =>
               /\ stdout'.rows = SelectSeq(todos, IsOpen)
               /\ todos' = todos /\ metadata' = metadata /\ file' = file
               /\ pc' = "menu"
      ]_vars

C8_Witness ==
    /\ pc = "menu" /\ stdin.choice = <<"2">>
    /\ stdout.rows # <<>>
    /\ Len(stdout.rows) < Len(todos)

(***************************************************************************)
(* C9. set_todo_completed or delete_todo given a numeric id that no todo   *)
(* has prints the not-found message and leaves the collection, the         *)
(* counter and the file as they were; the session stays in the menu loop.  *)
(***************************************************************************)
C9_NotFound ==
    [][ (/\ pc = "menu"
         /\ stdin'.choice \in {<<"4">>, <<"5">>}
         /\ ParseU32(stdin'.arg).ok
         /\ ~HasId(todos, ParseU32(stdin'.arg).val)) =>
            /\ stdout'.msg = NotFoundMsg
            /\ todos' = todos /\ metadata' = metadata /\ file' = file
            /\ pc' = "menu"
      ]_vars

C9_Witness ==
    /\ pc = "menu" /\ stdin.choice = <<"5">>
    /\ stdout.msg = NotFoundMsg
    /\ todos # <<>>
    /\ TypedId.ok /\ ~HasId(todos, TypedId.val)

(***************************************************************************)
(* C10. Menu dispatch: a step that returns to the prompt was one of the    *)
(* choices 1 to 5, and those never write the file; any other line writes   *)
(* the file once with the session's counter and todos and ends the loop;   *)
(* nothing happens in an ended process but a new start of the program.     *)
(***************************************************************************)
C10_Dispatch ==
    [][ /\ (pc = "menu"
            /\ stdin'.choice \in {<<"1">>, <<"2">>, <<"3">>, <<"4">>, <<"5">>}) =>
               /\ pc' \in {"menu", "panicked"}
               /\ file' = file
               /\ session'.saves = session.saves
        /\ (pc = "menu"
            /\ stdin'.choice \notin {<<"1">>, <<"2">>, <<"3">>, <<"4">>, <<"5">>}) =>
               /\ pc' = "exited"
               /\ file' = [exists |-> TRUE, bytes |-> SaveBytes(metadata, todos)]
               /\ session.saves = 0 /\ session'.saves = 1
               /\ todos' = todos /\ metadata' = metadata
        /\ pc = "exited" =>
               /\ pc' \in {"menu", "panicked"}
               /\ file' = file
               /\ session'.saves = 0
               /\ session'.first = Len(alloc) /\ alloc' = alloc
      ]_vars

C10_Witness ==
    /\ pc = "exited" /\ stdin.choice = <<"q">>
    /\ session.saves = 1
    /\ todos # <<>>
    /\ file.bytes = SaveBytes(metadata, todos)

(***************************************************************************)
(* C11. load is all or nothing: a start of the program enters the menu     *)
(* loop only when the file exists, its first line is a metadata line and   *)
(* every later line is a todo line of 4 fields with a numeric id, a        *)
(* timestamp and a bool; the session then holds one todo per line, in      *)
(* order. In every other case the process panics before the loop.          *)
(***************************************************************************)
\* the lines of the file after the metadata line
TodoLines(f) == IF Lines(f.bytes) = <<>> THEN <<>> ELSE Tail(Lines(f.bytes))

WellFormedMetadataLine(l) ==
    /\ StartsWith(l, SeqIdPrefix)
    /\ Len(Split(l, ":")) = 2
    /\ ParseU32(Split(l, ":")[2]).ok

WellFormedTodoLine(l) ==
    /\ Len(Split(l, ",")) = 4
    /\ ParseU32(Split(l, ",")[1]).ok
    /\ ParseTime(Split(l, ",")[2]).ok
    /\ ParseBool(Split(l, ",")[4]).ok

WellFormedFile(f) ==
    /\ f.exists
    /\ WellFormedMetadataLine(Trim(ReadLine(f.bytes)))
    /\ \A i \in 1..Len(TodoLines(f)) : WellFormedTodoLine(TodoLines(f)[i])

C11_LoadAllOrNothing ==
    [][ (pc \in {"off", "exited", "panicked"}) =>
           IF WellFormedFile(file)
           THEN /\ pc' = "menu"
                /\ Len(todos') = Len(TodoLines(file))
                /\ \A i \in 1..Len(todos') :
                      todos'[i] = TodoFromStr(TodoLines(file)[i]).todo
                /\ metadata'.seq_id
                      = MetadataFromStr(Trim(ReadLine(file.bytes))).seq_id
           ELSE (pc' = "panicked" /\ Len(todos') = 0)
      ]_vars

\* the process has panicked at load on a file whose first todo line is well formed
C11_Witness ==
    /\ pc = "panicked" /\ stdin = NoInput
    /\ session.boot.exists
    /\ WellFormedMetadataLine(Trim(ReadLine(session.boot.bytes)))
    /\ Len(TodoLines(session.boot)) >= 2
    /\ WellFormedTodoLine(TodoLines(session.boot)[1])
    /\ todos = <<>>

(***************************************************************************)
(* C12. The counter never decreases: whenever a step leaves the program in *)
(* the menu loop, within a session or by a new start after an exit or a    *)
(* panic, the counter is at least the counter held before the step.        *)
(***************************************************************************)
C12_CounterNeverDecreases ==
    [][ (pc' = "menu") => U32Leq(metadata.seq_id, metadata'.seq_id) ]_vars

(***************************************************************************)
(* C13. Within a session a todo that stays in the collection keeps its id, *)
(* text and created_at, and its is_completed never goes from true to       *)
(* false: every step either keeps all todos in place with at most flags    *)
(* raised, or removes one todo, or appends one.                            *)
(***************************************************************************)
\* todo u is todo t, possibly completed since
SameTodoFlagRaised(t, u) ==
    /\ u.id = t.id /\ u.text = t.text /\ u.created_at = t.created_at
    /\ t.is_completed => u.is_completed

\* ts without its k-th element
Without(ts, k) == [i \in 1..(Len(ts) - 1) |-> IF i < k THEN ts[i] ELSE ts[i + 1]]

C13_TodosOnlyCompleted ==
    [][ (pc = "menu") =>
           \/ /\ Len(todos') = Len(todos)
              /\ \A i \in 1..Len(todos) : SameTodoFlagRaised(todos[i], todos'[i])
           \/ \E k \in 1..Len(todos) : todos' = Without(todos, k)
           \/ /\ Len(todos') = Len(todos) + 1
              /\ SubSeq(todos', 1, Len(todos)) = todos
      ]_vars

\* a todo loaded as open is in the collection, completed and otherwise the same,
\* after a todo was created and one was deleted in the session
C13_Witness ==
    /\ pc = "menu"
    /\ SessionIds # <<>>
    /\ \E s \in 1..Len(SessionIds) : ~HasId(todos, SessionIds[s])
    /\ \E i \in 1..Len(todos), k \in 1..Len(LoadTodos(session.boot).todos) :
          /\ ~LoadTodos(session.boot).todos[k].is_completed
          /\ todos[i] = [LoadTodos(session.boot).todos[k] EXCEPT !.is_completed = TRUE]

(***************************************************************************)
(* C14. Insertion order: a step of choice 3 that returns to the prompt     *)
(* appends one open todo and leaves the todos before it in place; a step   *)
(* of delete_todo that finds the id removes exactly one todo, one with     *)
(* that id, and keeps the others in their order.                           *)
(***************************************************************************)
C14_InsertionOrder ==
    [][ /\ (pc = "menu" /\ pc' = "menu" /\ stdin'.choice = <<"3">>) =>
               /\ Len(todos') = Len(todos) + 1
               /\ SubSeq(todos', 1, Len(todos)) = todos
               /\ todos'[Len(todos')].is_completed = FALSE
               /\ todos'[Len(todos')].id = metadata'.seq_id
        /\ DeleteFound =>
               \E k \in 1..Len(todos) :
                  /\ todos[k].id = ParseU32(stdin'.arg).val
                  /\ todos' = Without(todos, k)
      ]_vars

\* the loaded todo was deleted from before the two todos created in the
\* session, which remain in the order of their creation
C14_Witness ==
    /\ pc = "menu" /\ stdin.choice = <<"5">> /\ stdout.msg = ""
    /\ LoadTodos(session.boot).todos # <<>>
    /\ Len(todos) = 2 /\ Len(SessionIds) = 2
    /\ \A i \in 1..2 : todos[i].id = SessionIds[i]

(***************************************************************************)
(* C15. The example scenario.  From the empty store seq_id:0: creating     *)
(* "buy milk" yields todo 1, open; creating "walk dog" yields todo 2;      *)
(* after completing 1 the open todos listed are todo 2 alone; after        *)
(* deleting 2 the list of all todos is empty; save_todos and a load then   *)
(* yield seq_id 2 and an empty collection.                                 *)
(***************************************************************************)
EmptyStoreFile == [exists |-> TRUE, bytes |-> SaveBytes([seq_id |-> U32(0)], <<>>)]

\* a session on the empty store that has created n todos
InScenario(n) ==
    /\ pc = "menu"
    /\ session.boot = EmptyStoreFile
    /\ Len(SessionIds) = n

IsTask(t, n, text, done) == t.id = U32(n) /\ t.text = text /\ t.is_completed = done

\* the states of the scenario: loaded; "buy milk" created; "walk dog" created;
\* 1 completed; 2 deleted by the last command
Loaded == InScenario(0) /\ todos = <<>>
MilkCreated == InScenario(1) /\ Len(todos) = 1 /\ IsTask(todos[1], 1, BuyMilk, FALSE)
DogCreated ==
    /\ InScenario(2) /\ Len(todos) = 2
    /\ IsTask(todos[1], 1, BuyMilk, FALSE) /\ IsTask(todos[2], 2, WalkDog, FALSE)
MilkCompleted ==
    /\ InScenario(2) /\ Len(todos) = 2
    /\ IsTask(todos[1], 1, BuyMilk, TRUE) /\ IsTask(todos[2], 2, WalkDog, FALSE)
DogDeleted ==
    /\ InScenario(2)
    /\ stdin = [choice |-> <<"5">>, arg |-> <<"2">>] /\ stdout.msg = ""
    /\ ~HasId(todos, U32(2))
    /\ \A i \in 1..Len(todos) : IsTask(todos[i], 1, BuyMilk, TRUE)

\* the steps of the scenario up to the delete, with what the example says of them
ScenarioUpToDelete ==
    /\ (Loaded /\ pc' = "menu" /\ stdin'.choice = <<"3">>) =>
          /\ Len(todos') = 1
          /\ todos'[1].id = U32(1) /\ todos'[1].is_completed = FALSE
          /\ todos'[1].text \in {Trim(l) : l \in TextLines}
          /\ metadata'.seq_id = U32(1)
    /\ (MilkCreated /\ pc' = "menu" /\ stdin'.choice = <<"3">>) =>
          /\ Len(todos') = 2 /\ todos'[1] = todos[1]
          /\ todos'[2].id = U32(2) /\ todos'[2].is_completed = FALSE
    /\ (DogCreated /\ stdin' = [choice |-> <<"4">>, arg |-> <<"1">>]) =>
          /\ MilkCompleted'
          /\ PrintTodos(todos', TRUE) = <<todos'[2]>>
    /\ (MilkCompleted /\ stdin'.choice = <<"2">>) => stdout'.rows = <<todos[2]>>

C15_ExampleScenario ==
    [][ /\ ScenarioUpToDelete
        /\ (MilkCompleted /\ stdin' = [choice |-> <<"5">>, arg |-> <<"2">>]) =>
              /\ DogDeleted'
              /\ PrintTodos(todos', FALSE) = <<>>
        /\ (DogDeleted /\ stdin'.choice = <<"1">>) => stdout'.rows = <<>>
        /\ (DogDeleted /\ pc' = "exited") =>
              /\ LoadMetadata(file').ok /\ LoadMetadata(file').seq_id = U32(2)
              /\ LoadTodos(file').ok /\ LoadTodos(file').todos = <<>>
      ]_vars

\* amended: deleting 2 leaves todo 1, completed, which the list of all todos
\* shows and which save_todos and a load bring back, with seq_id 2
TaskOneLeft == DogDeleted /\ Len(todos) = 1

C15_ExampleScenarioAmended ==
    [][ /\ ScenarioUpToDelete
        /\ (MilkCompleted /\ stdin' = [choice |-> <<"5">>, arg |-> <<"2">>]) =>
              /\ TaskOneLeft'
              /\ todos' = <<todos[1]>>
              /\ PrintTodos(todos', FALSE) = <<todos[1]>>
        /\ (TaskOneLeft /\ stdin'.choice = <<"1">>) => stdout'.rows = todos
        /\ (TaskOneLeft /\ pc' = "exited") =>
              /\ LoadMetadata(file').ok /\ LoadMetadata(file').seq_id = U32(2)
              /\ LoadTodos(file').ok /\ LoadTodos(file').todos = todos
      ]_vars

\* the scenario was run to its end: the session on the empty store created
\* two todos and has saved seq_id 2 with todo 1, completed, and a new
\* session has loaded that file
C15_Witness ==
    /\ pc = "menu" /\ session.after_save /\ stdin = NoInput
    /\ file.bytes = SaveBytes(metadata, todos)
    /\ metadata.seq_id = U32(2)
    /\ Len(alloc) = 2
    /\ Len(todos) = 1 /\ IsTask(todos[1], 1, BuyMilk, TRUE)

(***************************************************************************)
(* C16. A comma in a todo's text corrupts the file: when save_todos writes *)
(* a collection holding a todo whose text contains a comma, the file has   *)
(* a todo line of more than 4 fields and load_todos fails on it; while the *)
(* file has such a line every start of the program panics and leaves the   *)
(* file as it is, so no later session loads it.  (The program starts from  *)
(* the states outside the menu loop.)                                      *)
(***************************************************************************)
HasComma(text) == \E i \in 1..Len(text) : text[i] = ","

\* the file has a todo line that split(',') cuts into more than 4 fields
HasLongLine(f) ==
    /\ f.exists
    /\ \E i \in 1..Len(TodoLines(f)) : Len(Split(TodoLines(f)[i], ",")) > 4

C16_CommaTextBreaksLoad ==
    [][ /\ (/\ pc = "menu" /\ pc' = "exited"
            /\ \E i \in 1..Len(todos) : HasComma(todos[i].text)) =>
               /\ HasLongLine(file')
               /\ ~LoadTodos(file').ok
               /\ LoadTodos(file').todos # todos
        /\ (pc # "menu" /\ HasLongLine(file)) => (pc' = "panicked" /\ file' = file)
      ]_vars

\* the session after the one that saved a todo with a comma has panicked in
\* its load, and the file is still the one saved
C16_Witness ==
    /\ pc = "panicked" /\ session.after_save /\ stdin = NoInput
    /\ HasLongLine(file)
    /\ file = session.boot
    /\ alloc # <<>>

(***************************************************************************)
(* C17. The file is written only by the save_todos of the exit path: a     *)
(* step of a choice 1 to 5 leaves the file as it is, and a step that       *)
(* changes the file is the exit of the loop, writing the store.  A         *)
(* non-numeric id typed for choice 4 or 5 panics at once without a save:   *)
(* the file is then the one the session started with, and the next start   *)
(* loads that file's store, with nothing the session did.                  *)
(***************************************************************************)
\* the line holds a character that is neither a digit nor a sign
NonNumeric(s) == \E i \in 1..Len(s) : s[i] \notin DigitSet \cup {"+"}

C17_FileWrittenOnlyOnExit ==
    [][ /\ (pc = "menu"
              /\ stdin'.choice \in {<<"1">>, <<"2">>, <<"3">>, <<"4">>, <<"5">>}) =>
               file' = file
        /\ (file' # file) =>
               /\ pc = "menu" /\ pc' = "exited"
               /\ file' = [exists |-> TRUE, bytes |-> SaveBytes(metadata, todos)]
        /\ (pc = "menu" /\ stdin'.choice \in {<<"4">>, <<"5">>}
              /\ NonNumeric(stdin'.arg)) =>
               /\ pc' = "panicked"
               /\ session'.saves = 0
               /\ file' = session.boot
        /\ (pc = "panicked" /\ stdin.choice \in {<<"4">>, <<"5">>}) =>
               /\ file = session.boot
               /\ pc' = "menu" =>
                     /\ todos' = LoadTodos(session.boot).todos
                     /\ metadata'.seq_id = LoadedSeqId
      ]_vars

\* a session that created two todos was aborted by a non-numeric id, and the
\* program started again has the store of the file the aborted session had
\* started with
C17_Witness ==
    /\ pc = "menu" /\ stdin = NoInput /\ ~session.after_save
    /\ Len(alloc) >= 2
    /\ session.first = Len(alloc)
    /\ file.bytes = SaveBytes([seq_id |-> U32(0)], <<>>)
    /\ todos = <<>> /\ metadata.seq_id = U32(0)

(***************************************************************************)
(* C18. The counter is changed only by new_todo, and each new_todo makes   *)
(* it exactly one greater; every other step of the menu loop (the lists,   *)
(* complete and delete whether they find the id or not, and the exit with  *)
(* its save) leaves the counter as it is.                                  *)
(***************************************************************************)
C18_CounterFrame ==
    [][ (pc = "menu") =>
           IF pc' = "menu" /\ stdin'.choice = <<"3">>
           THEN IsSucc(metadata.seq_id, metadata'.seq_id)
           ELSE metadata'.seq_id = metadata.seq_id
      ]_vars

(***************************************************************************)
(* C19. Id allocation never wraps around: a new_todo at counter 2^32 - 1   *)
(* that returns to the prompt has given the new todo an id greater than    *)
(* every id assigned before, and a counter greater than the one before.    *)
(***************************************************************************)
C19_NoWrap ==
    [][ (/\ pc = "menu" /\ pc' = "menu"
         /\ stdin'.choice = <<"3">>
         /\ metadata.seq_id = U32Max) =>
            /\ U32Lt(metadata.seq_id, metadata'.seq_id)
            /\ \A k \in 1..Len(alloc) : U32Lt(alloc[k], todos'[Len(todos')].id)
      ]_vars

====
